---------------------------- MODULE Spec2Model ----------------------------
(***************************************************************************)
(* Business Reputation & Insights Analyzer.                                *)
(*                                                                         *)
(* preprocess.py, analysis_pipeline.py and data_fetcher.py are pure        *)
(* functions over Python values; app.py is a Streamlit script that is      *)
(* re-run from top to bottom on every user interaction and keeps its       *)
(* state in st.session_state.                                              *)
(*                                                                         *)
(* Python values are tagged records: a str is [ty |-> "str", s |-> <<c1,   *)
(* ..., cn>>] with one-character strings as characters, None is            *)
(* [ty |-> "NoneType"], and so on.  A raised exception is                  *)
(* [ty |-> "raise", exc |-> <exception class>].                            *)
(***************************************************************************)
EXTENDS Integers, Sequences, FiniteSets, TLC

VARIABLES
    \* preprocess.clean_text: the argument, its result, and the result of
    \* calling clean_text again on that result
    text, cleaned, recleaned,
    \* preprocess.preprocess_reviews: the argument df and the returned df (or
    \* the exception raised)
    pre_df, pre_out,
    \* analysis_pipeline.add_sentiment: the argument df, what the sentiment
    \* model returns for it, and the returned df (or the exception raised)
    sent_df, sent_results, sent_out,
    \* config.SERPAPI_API_KEY, read from the environment at import
    SERPAPI_API_KEY,
    \* data_fetcher.fetch_google_maps_reviews: the arguments, the number of
    \* requests.get calls made, the response received, and the returned df
    \* (or the exception raised)
    fetch_call, http_calls, fetch_resp, fetch_out,
    \* analysis_pipeline.compute_basic_stats: the argument df and the
    \* returned dict (or the exception raised)
    stats_df, stats_out,
    \* analysis_pipeline.extract_themes: the argument df, what the chat
    \* completion call does, and the returned dict (or the exception raised)
    themes_df, llm_reply, themes_out,
    \* app.py: st.session_state, the mode radio, the value of the CSV file
    \* uploader, and the last run of the script (the buttons it rendered,
    \* its local results, what it displayed, the exception that ended it)
    session_state, mode, uploaded, run

cleanVars == <<text, cleaned, recleaned>>
preVars == <<pre_df, pre_out>>
sentVars == <<sent_df, sent_results, sent_out>>

fetchVars == <<SERPAPI_API_KEY, fetch_call, http_calls, fetch_resp, fetch_out>>
statsVars == <<stats_df, stats_out>>

themesVars == <<themes_df, llm_reply, themes_out>>

appVars == <<session_state, mode, uploaded, run>>

vars == <<cleanVars, preVars, sentVars, fetchVars, statsVars, themesVars, appVars>>

\* what a call of one function leaves alone
NotClean == <<preVars, sentVars, fetchVars, statsVars, themesVars, appVars>>
NotPre == <<cleanVars, sentVars, fetchVars, statsVars, themesVars, appVars>>
NotSent == <<cleanVars, preVars, fetchVars, statsVars, themesVars, appVars>>
NotFetch == <<cleanVars, preVars, sentVars, statsVars, themesVars, appVars>>
NotStats == <<cleanVars, preVars, sentVars, fetchVars, themesVars, appVars>>
NotThemes == <<cleanVars, preVars, sentVars, fetchVars, statsVars, appVars>>
\* the script reads SERPAPI_API_KEY and calls none of the functions on its own
NotApp == <<cleanVars, preVars, sentVars, fetchVars, statsVars, themesVars>>

Unset == [ty |-> "unset"]

Str(s) == [ty |-> "str", s |-> s]
PyNone == [ty |-> "NoneType"]
PyNaN == [ty |-> "float", nan |-> TRUE]
PyInt(n) == [ty |-> "int", n |-> n]
Raise(e) == [ty |-> "raise", exc |-> e]

(***************************************************************************)
(* Characters.                                                             *)
(***************************************************************************)
LowerLetters == {"a", "b", "e", "g", "h", "i", "l", "n", "o", "p", "s", "t", "w"}
UpperLetters == {"A", "B", "E", "G", "H", "L", "N", "O", "P", "S", "T", "W"}
Digits == {"1", "5", "7"}
KeptPunct == {".", ",", "!", "?", "'"}
\* what the regex class \s matches
Whitespace == {" ", "\t"}
\* characters outside [A-Za-z0-9\s.,!?'] : other punctuation, emojis
Symbols == {"#", ":", "/", "_"}

\* str.lower() on one character
LowerChar(c) ==
    CASE c = "A" -> "a" [] c = "B" -> "b" [] c = "E" -> "e" [] c = "G" -> "g"
      [] c = "H" -> "h" [] c = "L" -> "l" [] c = "N" -> "n" [] c = "O" -> "o"
      [] c = "P" -> "p" [] c = "S" -> "s" [] c = "T" -> "t" [] c = "W" -> "w"
      [] OTHER -> c

\* str.lower()
lower(s) == [i \in 1..Len(s) |-> LowerChar(s[i])]

\* s[i:] of Python, i counted from 0
From(s, i) == SubSeq(s, i + 1, Len(s))

StartsWith(s, p) == Len(s) >= Len(p) /\ SubSeq(s, 1, Len(p)) = p

\* length of the longest prefix of s without whitespace: what \S+ or \S*
\* consumes greedily
RECURSIVE NonSpaceRun(_)
NonSpaceRun(s) ==
    IF s = <<>> \/ Head(s) \in Whitespace THEN 0 ELSE 1 + NonSpaceRun(Tail(s))

(***************************************************************************)
(* preprocess.clean_text                                                   *)
(***************************************************************************)
\* length of the match of  http\S+|www\.\S+  at the start of s, 0 if none.
\* The pattern is compiled without re.IGNORECASE.
UrlMatchLen(s) ==
    IF (StartsWith(s, <<"h", "t", "t", "p">>) \/ StartsWith(s, <<"w", "w", "w", ".">>))
       /\ NonSpaceRun(From(s, 4)) >= 1
    THEN 4 + NonSpaceRun(From(s, 4))
    ELSE 0

\* re.sub(r"http\S+|www\.\S+", "", text): leftmost, non-overlapping matches
RECURSIVE RemoveUrls(_)
RemoveUrls(s) ==
    IF s = <<>> THEN <<>>
    ELSE IF UrlMatchLen(s) > 0 THEN RemoveUrls(From(s, UrlMatchLen(s)))
    ELSE <<Head(s)>> \o RemoveUrls(Tail(s))

KeptChar(c) ==
    c \in LowerLetters \cup UpperLetters \cup Digits \cup Whitespace \cup KeptPunct

\* re.sub(r"[^A-Za-z0-9\s\.,!?']", " ", text)
ReplaceSymbols(s) == [i \in 1..Len(s) |-> IF KeptChar(s[i]) THEN s[i] ELSE " "]

\* re.sub(r"\s+", " ", text): every maximal run of whitespace becomes one space
RECURSIVE CollapseSpaces(_)
CollapseSpaces(s) ==
    IF s = <<>> THEN <<>>
    ELSE IF Head(s) \in Whitespace
         THEN IF Len(s) >= 2 /\ s[2] \in Whitespace
              THEN CollapseSpaces(Tail(s))
              ELSE <<" ">> \o CollapseSpaces(Tail(s))
         ELSE <<Head(s)>> \o CollapseSpaces(Tail(s))

RECURSIVE LStrip(_)
LStrip(s) == IF s # <<>> /\ Head(s) \in Whitespace THEN LStrip(Tail(s)) ELSE s

RECURSIVE RStrip(_)
RStrip(s) ==
    IF s # <<>> /\ s[Len(s)] \in Whitespace THEN RStrip(SubSeq(s, 1, Len(s) - 1)) ELSE s

\* str.strip()
strip(s) == RStrip(LStrip(s))

\* mutant: the lower-casing step is left out
clean_text_keeps_case(t) ==
    IF t.ty # "str" THEN Str(<<>>)
    ELSE Str(strip(CollapseSpaces(ReplaceSymbols(RemoveUrls(t.s)))))

clean_text(t) ==
    IF t.ty # "str" THEN Str(<<>>)
    ELSE Str(strip(CollapseSpaces(lower(ReplaceSymbols(RemoveUrls(t.s))))))

(***************************************************************************)
(* Inputs of clean_text: concatenations of at most MaxFragments fragments. *)
(***************************************************************************)
MaxFragments == 3

Fragments ==
    { <<"h", "t", "t", "p">>, <<"H", "T", "T", "P">>,
      <<"w", "w", "w", ".">>, <<"W", "w", "w", ".">>,
      <<"h", "t">>, <<"t", "p">>,
      <<"s">>, <<"A">>, <<"7">>, <<"!">>, <<"#">>, <<" ">>, <<"\t">> }

RECURSIVE Concats(_)
Concats(n) ==
    IF n = 0 THEN { <<>> }
    ELSE LET shorter == Concats(n - 1)
         IN  shorter \cup { f \o r : f \in Fragments, r \in shorter }

Texts == { Str(s) : s \in Concats(MaxFragments) } \cup { PyNone, PyNaN, PyInt(5) }

(***************************************************************************)
(* Data frames: [ty |-> "DataFrame", columns |-> <<names>>, rows |-> <<r1, *)
(* ..., rn>>], each row a function from the column names to values.        *)
(***************************************************************************)
DataFrame(cols, rows) == [ty |-> "DataFrame", columns |-> cols, rows |-> rows]

Range(f) == { f[i] : i \in DOMAIN f }

HasColumn(df, c) == c \in Range(df.columns)

\* df[c] = values : the column is replaced when present and appended otherwise
SetColumn(df, c, values) ==
    LET cols == IF HasColumn(df, c) THEN df.columns ELSE Append(df.columns, c)
    IN  DataFrame(cols,
                  [i \in 1..Len(df.rows) |->
                      [k \in Range(cols) |-> IF k = c THEN values[i] ELSE df.rows[i][k]]])

\* df[c].tolist()
Column(df, c) == [i \in 1..Len(df.rows) |-> df.rows[i][c]]

(***************************************************************************)
(* preprocess.preprocess_reviews                                           *)
(***************************************************************************)
\* What Series.astype(str) can make of one cell.  A str stays as it is and a
\* number becomes its digits.  A missing value (None, NaN) becomes the text
\* "None" / "nan" under pandas 1.x and 2.x and stays missing under pandas
\* 3.x: the repository pins no version.
AstypeStr(v) ==
    CASE v.ty = "str" -> { v }
      [] v.ty = "int" -> { Str(<<"5">>) }
      [] v.ty = "NoneType" -> { Str(<<"N", "o", "n", "e">>), PyNaN }
      [] v.ty = "float" -> { Str(<<"n", "a", "n">>), PyNaN }

\* every sequence of the length of cells whose i-th member is one of
\* AstypeStr(cells[i])
AstypeStrColumn(cells) ==
    { c \in [1..Len(cells) -> UNION { AstypeStr(cells[i]) : i \in 1..Len(cells) }] :
        \A i \in 1..Len(cells) : c[i] \in AstypeStr(cells[i]) }

\* preprocess_reviews(df), cast being the outcome of df["text"].astype(str)
preprocess_reviews(df, cast) ==
    IF ~HasColumn(df, "text") THEN Raise("ValueError")
    ELSE SetColumn(df, "clean_text", [i \in 1..Len(cast) |-> clean_text(cast[i])])

(***************************************************************************)
(* analysis_pipeline.add_sentiment                                         *)
(***************************************************************************)
\* needle in haystack, for str
RECURSIVE Contains(_, _)
Contains(haystack, needle) ==
    \/ StartsWith(haystack, needle)
    \/ haystack # <<>> /\ Contains(Tail(haystack), needle)

\* mutant: the tests for "neg" and "pos" are made in the other order
MapLabel_neg_first(label) ==
    LET l == lower(label)
    IN  IF Contains(l, <<"n", "e", "g">>) THEN "negative"
        ELSE IF Contains(l, <<"p", "o", "s">>) THEN "positive"
        ELSE "neutral"

\* the body of the loop over the model's results
MapLabel(label) ==
    LET l == lower(label)
    IN  IF Contains(l, <<"p", "o", "s">>) THEN "positive"
        ELSE IF Contains(l, <<"n", "e", "g">>) THEN "negative"
        ELSE "neutral"

\* add_sentiment(df), results being what _sentiment_pipeline returned
add_sentiment(df, results) ==
    SetColumn(SetColumn(df, "sentiment",
                        [i \in 1..Len(results) |-> MapLabel(results[i].label)]),
              "sentiment_score", [i \in 1..Len(results) |-> results[i].score])

(***************************************************************************)
(* json.loads.  A JSON text (an LLM reply, a response body) is a str whose *)
(* members are lexical tokens: the punctuation { } [ ] : , , string        *)
(* literals, numbers, null, whitespace, and words that are no JSON.        *)
(* A dict is [ty |-> "dict", d |-> <function from keys to values>], a      *)
(* list is [ty |-> "list", l |-> <<values>>].                              *)
(***************************************************************************)
Dict(d) == [ty |-> "dict", d |-> d]
List(l) == [ty |-> "list", l |-> l]

\* the string literals, with the str each denotes
StringLiterals ==
    { "\"positive\"", "\"negative\"", "\"score\"", "\"reason\"", "\"reviews\"",
      "\"user\"", "\"rating\"", "\"date\"", "\"snippet\"", "\"review\"", "\"x\"", "\"\"" }

Unquote(t) ==
    CASE t = "\"positive\"" -> <<"positive">> [] t = "\"negative\"" -> <<"negative">>
      [] t = "\"score\"" -> <<"score">> [] t = "\"reason\"" -> <<"reason">>
      [] t = "\"reviews\"" -> <<"reviews">> [] t = "\"user\"" -> <<"user">>
      [] t = "\"rating\"" -> <<"rating">> [] t = "\"date\"" -> <<"date">>
      [] t = "\"snippet\"" -> <<"snippet">> [] t = "\"review\"" -> <<"review">>
      [] t = "\"x\"" -> <<"x">> [] t = "\"\"" -> <<>>

NumberLiterals == {"0", "5", "7"}

NumberOf(t) == CASE t = "0" -> 0 [] t = "5" -> 5 [] t = "7" -> 7

\* d[key] = val
DictSet(d, key, val) == [k \in DOMAIN d \cup {key} |-> IF k = key THEN val ELSE d[k]]

\* dict.get(key, default)
DictGet(dict, key, default) == IF key \in DOMAIN dict.d THEN dict.d[key] ELSE default

NoParse == [ok |-> FALSE]
Parsed(v, rest) == [ok |-> TRUE, val |-> v, rest |-> rest]

RECURSIVE ParseValue(_), ParseMembers(_, _), ParseElements(_, _)

\* scan_once at the start of s: a value and the tokens left after it
ParseValue(s) ==
    IF s = <<>> THEN NoParse
    ELSE CASE Head(s) \in StringLiterals -> Parsed(Str(Unquote(Head(s))), Tail(s))
           [] Head(s) \in NumberLiterals -> Parsed(PyInt(NumberOf(Head(s))), Tail(s))
           [] Head(s) = "null" -> Parsed(PyNone, Tail(s))
           [] Head(s) = "{" ->
                LET r == LStrip(Tail(s))
                IN  IF r # <<>> /\ Head(r) = "}" THEN Parsed(Dict(<<>>), Tail(r))
                    ELSE ParseMembers(r, <<>>)
           [] Head(s) = "[" ->
                LET r == LStrip(Tail(s))
                IN  IF r # <<>> /\ Head(r) = "]" THEN Parsed(List(<<>>), Tail(r))
                    ELSE ParseElements(r, <<>>)
           [] OTHER -> NoParse

\* JSONObject after "{" : key : value pairs separated by commas, then "}"
ParseMembers(s, d) ==
    IF s = <<>> \/ Head(s) \notin StringLiterals THEN NoParse
    ELSE LET key == Unquote(Head(s))
             colon == LStrip(Tail(s))
         IN  IF colon = <<>> \/ Head(colon) # ":" THEN NoParse
             ELSE LET v == ParseValue(LStrip(Tail(colon)))
                  IN  IF ~v.ok THEN NoParse
                      ELSE LET after == LStrip(v.rest)
                               d2 == DictSet(d, key, v.val)
                           IN  IF after = <<>> THEN NoParse
                               ELSE IF Head(after) = "}" THEN Parsed(Dict(d2), Tail(after))
                               ELSE IF Head(after) = "," THEN ParseMembers(LStrip(Tail(after)), d2)
                               ELSE NoParse

\* JSONArray after "[" : values separated by commas, then "]"
ParseElements(s, l) ==
    LET v == ParseValue(s)
    IN  IF ~v.ok THEN NoParse
        ELSE LET after == LStrip(v.rest)
                 l2 == Append(l, v.val)
             IN  IF after = <<>> THEN NoParse
                 ELSE IF Head(after) = "]" THEN Parsed(List(l2), Tail(after))
                 ELSE IF Head(after) = "," THEN ParseElements(LStrip(Tail(after)), l2)
                 ELSE NoParse

\* json.loads(t): the value, or the exception raised
json_loads(t) ==
    IF t.ty # "str" THEN Raise("TypeError")
    ELSE LET v == ParseValue(LStrip(t.s))
         IN  IF v.ok /\ LStrip(v.rest) = <<>> THEN v.val ELSE Raise("JSONDecodeError")

(***************************************************************************)
(* data_fetcher.fetch_google_maps_reviews                                  *)
(***************************************************************************)
\* bool(v)
Truthy(v) ==
    CASE v.ty = "NoneType" -> FALSE
      [] v.ty = "str" -> v.s # <<>>
      [] v.ty = "int" -> v.n # 0
      [] v.ty = "list" -> v.l # <<>>
      [] v.ty = "dict" -> DOMAIN v.d # {}
      [] OTHER -> TRUE

\* a or b
Or(a, b) == IF Truthy(a) THEN a ELSE b

\* mutant: an empty key argument falls back on the configured key as None
\* does (api_key or SERPAPI_API_KEY)
EffectiveKey_or_default(api_key, configured) == Or(api_key, configured)

\* api_key after  if api_key is None: api_key = SERPAPI_API_KEY
EffectiveKey(api_key, configured) ==
    IF api_key.ty = "NoneType" THEN configured ELSE api_key

EmptyReviews == DataFrame(<<"author", "rating", "date", "text">>, <<>>)

\* the dict appended to rows for one review
ReviewRow(rev) ==
    [k \in {"author", "rating", "date", "text"} |->
        CASE k = "author" -> DictGet(rev, <<"user">>, Str(<<>>))
          [] k = "rating" -> DictGet(rev, <<"rating">>, PyNone)
          [] k = "date" -> DictGet(rev, <<"date">>, Str(<<>>))
          [] k = "text" -> Or(DictGet(rev, <<"snippet">>, Str(<<>>)),
                              DictGet(rev, <<"review">>, Str(<<>>)))]

\* the loop over a truthy reviews value and pd.DataFrame(rows).  Iterating
\* a str gives str and a dict its keys, none of which has .get; a number
\* cannot be iterated.
ReviewsFrame(reviews) ==
    CASE reviews.ty = "list" ->
           IF \E i \in 1..Len(reviews.l) :
                  /\ reviews.l[i].ty # "dict"
                  /\ \A j \in 1..(i - 1) : reviews.l[j].ty = "dict"
           THEN Raise("AttributeError")
           ELSE DataFrame(<<"author", "rating", "date", "text">>,
                          [i \in 1..Len(reviews.l) |-> ReviewRow(reviews.l[i])])
      [] reviews.ty \in {"str", "dict"} -> Raise("AttributeError")
      [] OTHER -> Raise("TypeError")

\* everything after requests.get has returned or raised
\* the rest of the function once data = r.json() has returned or raised
FrameOfData(data) ==
    IF data.ty = "raise" THEN data
    ELSE IF data.ty # "dict" THEN Raise("AttributeError")
    ELSE IF ~Truthy(DictGet(data, <<"reviews">>, List(<<>>))) THEN EmptyReviews
    ELSE ReviewsFrame(DictGet(data, <<"reviews">>, List(<<>>)))

HandleResponse(resp) ==
    IF resp.kind = "ConnectionError" THEN Raise("ConnectionError")
    ELSE IF resp.status_code >= 400 THEN Raise("HTTPError")
    ELSE FrameOfData(json_loads(resp.body))

\* fetch_google_maps_reviews(place_id, api_key), resp being what requests.get
\* gives when it is called
fetch_google_maps_reviews(place_id, api_key, configured, resp) ==
    IF ~Truthy(EffectiveKey(api_key, configured)) THEN Raise("ValueError")
    ELSE HandleResponse(resp)

(***************************************************************************)
(* analysis_pipeline.compute_basic_stats                                   *)
(***************************************************************************)
Float(num, den) == [ty |-> "float", nan |-> FALSE, num |-> num, den |-> den]

RECURSIVE SumInts(_)
SumInts(col) ==
    IF col = <<>> THEN 0
    ELSE (IF Head(col).ty = "int" THEN Head(col).n ELSE 0) + SumInts(Tail(col))

\* float(Series.mean()): missing values are skipped, and the mean of nothing
\* is NaN.  A float is kept as the fraction num / den.
Mean(col) ==
    LET present == { i \in 1..Len(col) : col[i].ty = "int" }
    IN  IF present = {} THEN PyNaN ELSE Float(SumInts(col), Cardinality(present))

\* Series.value_counts().to_dict()
ValueCounts(col) ==
    Dict([v \in Range(col) |-> Cardinality({ i \in 1..Len(col) : col[i] = v })])

\* mutant: without a rating column the average is reported as NaN
compute_basic_stats_nan(df) ==
    IF ~HasColumn(df, "sentiment") THEN Raise("KeyError")
    ELSE [ty |-> "stats",
          total_reviews |-> Len(df.rows),
          avg_rating |-> IF HasColumn(df, "rating") THEN Mean(Column(df, "rating")) ELSE PyNaN,
          sentiment_counts |-> ValueCounts(Column(df, "sentiment"))]

compute_basic_stats(df) ==
    IF ~HasColumn(df, "sentiment") THEN Raise("KeyError")
    ELSE [ty |-> "stats",
          total_reviews |-> Len(df.rows),
          avg_rating |-> IF HasColumn(df, "rating") THEN Mean(Column(df, "rating")) ELSE PyNone,
          sentiment_counts |-> ValueCounts(Column(df, "sentiment"))]

(***************************************************************************)
(* analysis_pipeline._call_llm and extract_themes                          *)
(***************************************************************************)
\* _call_llm(prompt), reply being what client.chat.completions.create does:
\* it raises, or returns a message whose content is a str or None
call_llm(reply) ==
    IF reply.kind = "error" THEN Raise("APIError")
    ELSE IF reply.content.ty # "str" THEN Raise("AttributeError")
    ELSE Str(strip(reply.content.s))

\* {"positive": [], "negative": [], "raw": raw}
ThemesFallback(raw) ==
    Dict([k \in { <<"positive">>, <<"negative">>, <<"raw">> } |->
            IF k = <<"raw">> THEN raw ELSE List(<<>>)])

\* mutant: the parsed value is returned whatever its type
ParseThemes_unchecked(raw) ==
    LET parsed == json_loads(raw)
    IN  IF parsed.ty = "raise" THEN ThemesFallback(raw) ELSE parsed

\* the best-effort parse of extract_themes
ParseThemes(raw) ==
    LET parsed == json_loads(raw)
    IN  IF parsed.ty = "raise" \/ parsed.ty # "dict" THEN ThemesFallback(raw) ELSE parsed

\* df.head(n)
Head_n(df, n) == DataFrame(df.columns, SubSeq(df.rows, 1, IF n < Len(df.rows) THEN n ELSE Len(df.rows)))

MaxThemeReviews == 50

\* extract_themes(df), reply being the outcome of the chat completion call
extract_themes(df, reply) ==
    IF ~HasColumn(Head_n(df, MaxThemeReviews), "clean_text") THEN Raise("KeyError")
    ELSE LET raw == call_llm(reply)
         IN  IF raw.ty = "raise" THEN raw ELSE ParseThemes(raw)

(***************************************************************************)
(* analysis_pipeline.summarize_reviews and generate_recommendations        *)
(***************************************************************************)
MaxSummaryReviews == 100

\* summarize_reviews(df), reply being the outcome of the chat completion call
summarize_reviews(df, reply) ==
    IF ~HasColumn(Head_n(df, MaxSummaryReviews), "clean_text") THEN Raise("KeyError")
    ELSE call_llm(reply)

\* generate_recommendations(df, themes)
generate_recommendations(df, themes, reply) ==
    IF ~HasColumn(df, "sentiment") THEN Raise("KeyError")
    ELSE IF themes.ty # "dict" THEN Raise("AttributeError")
    ELSE call_llm(reply)

(***************************************************************************)
(* app.py: the script, modes "Single Business Analysis" and "Upload CSV".  *)
(***************************************************************************)
PyTrue == [ty |-> "bool", b |-> TRUE]

SESSION_KEYS ==
    { "df_raw", "df_analyzed", "themes", "summary", "recs", "csv_uploaded_once",
      "df_A_raw", "df_B_raw", "A_processed", "B_processed", "A_themes", "B_themes",
      "A_summary", "B_summary", "A_recs", "B_recs", "compared" }

reset_single(ss) ==
    [k \in SESSION_KEYS |->
        IF k \in {"df_raw", "df_analyzed", "themes", "summary", "recs"} THEN PyNone ELSE ss[k]]

\* what one run of the script leaves behind besides st.session_state
NoRun ==
    [exc |-> "none", buttons |-> {}, fetched |-> Unset, df_proc |-> Unset,
     insights |-> Unset, scoring |-> Unset]

\* the handler of "Fetch Reviews": the local df, if fetch was called
FetchedOnClick(place_id, key, configured, resp) ==
    IF ~Truthy(place_id) THEN Unset
    ELSE fetch_google_maps_reviews(place_id, Or(key, PyNone), configured, resp)

\* st.session_state after the handler of "Fetch Reviews"
AfterFetch(ss, df) ==
    IF df.ty = "DataFrame" /\ df.rows # <<>>
    THEN [reset_single(ss) EXCEPT !["df_raw"] = df, !["csv_uploaded_once"] = PyNone]
    ELSE ss

\* the handler of "Run Analysis": the local df_proc
Analyze(df, cast, sres) ==
    LET df_proc == preprocess_reviews(df, cast)
    IN  IF df_proc.ty = "raise" THEN df_proc
        ELSE IF sres.kind = "error" THEN Raise("Exception")
        ELSE add_sentiment(df_proc, sres.results)

\* the handler of "Generate Insights": the locals themes, summary, recs, or
\* the exception that the try block caught
InsightsOf(themes, summary, recs) ==
    IF themes.ty = "raise" THEN themes
    ELSE IF summary.ty = "raise" THEN summary
    ELSE IF recs.ty = "raise" THEN recs
    ELSE [ty |-> "insights", themes |-> themes, summary |-> summary, recs |-> recs]

\* recs is not computed when themes or summary raised
RecsAfter(df_analyzed, themes, summary, rr) ==
    InsightsOf(themes, summary,
               IF themes.ty = "raise" \/ summary.ty = "raise" THEN Unset
               ELSE generate_recommendations(df_analyzed, themes, rr))

Insights(df_analyzed, rt, rs, rr) ==
    RecsAfter(df_analyzed, extract_themes(df_analyzed, rt),
              summarize_reviews(df_analyzed, rs), rr)

AfterInsights(ss, ins) ==
    IF ins.ty = "insights"
    THEN [ss EXCEPT !["themes"] = ins.themes, !["summary"] = ins.summary, !["recs"] = ins.recs]
    ELSE ss

\* for t in v: write("- " + t) runs through
ThemeListRenders(v) ==
    CASE v.ty = "list" -> \A i \in 1..Len(v.l) : v.l[i].ty = "str"
      [] v.ty \in {"str", "dict"} -> TRUE
      [] OTHER -> FALSE

ThemesRender(themes) ==
    /\ ThemeListRenders(DictGet(themes, <<"positive">>, List(<<>>)))
    /\ ThemeListRenders(DictGet(themes, <<"negative">>, List(<<>>)))

Sentinel ==
    Dict([k \in { <<"score">>, <<"reason">> } |->
            IF k = <<"score">> THEN Str(<<"N/A">>) ELSE Str(<<"Failed">>)])

\* eva after the try / except around json.loads(_call_llm(prompt))
OrSentinel(v) == IF v.ty = "raise" THEN Sentinel ELSE v

\* json.loads(answer), unless computing answer raised
LoadsAnswer(answer) == IF answer.ty = "raise" THEN answer ELSE json_loads(answer)

Eva(reply) == OrSentinel(LoadsAnswer(call_llm(reply)))

\* v[key] with a str key
Subscript(v, key) ==
    IF v.ty # "dict" THEN Raise("TypeError")
    ELSE IF key \notin DOMAIN v.d THEN Raise("KeyError")
    ELSE v.d[key]

\* what st.metric("Actionability Score", score) and st.write(reason) raise;
\* st.metric takes an int, a float, a str or None as value
ScoreRaises(score, reason) ==
    IF score.ty = "raise" THEN score.exc
    ELSE IF score.ty \notin {"int", "float", "str", "NoneType"} THEN "TypeError"
    ELSE IF reason.ty = "raise" THEN reason.exc
    ELSE "none"

Scored(reply, score, reason) ==
    [ty |-> "scoring", reply |-> reply, exc |-> ScoreRaises(score, reason),
     score |-> IF score.ty = "raise" \/ ScoreRaises(score, reason) = "TypeError"
               THEN Unset ELSE score,
     reason |-> IF ScoreRaises(score, reason) = "none" THEN reason ELSE Unset]

ScoringOf(reply, eva) ==
    Scored(reply, Subscript(eva, <<"score">>), Subscript(eva, <<"reason">>))

\* the actionability step from the LLM call to st.write(eva["reason"])
Scoring(reply) == ScoringOf(reply, Eva(reply))

\* a run that stops where exc is raised
Stopped(st, exc) == [st EXCEPT !.run.exc = exc]

\* the handler of "Fetch Reviews" has left the local df fetched
WithFetched(ss, fetched) ==
    [ss |-> AfterFetch(ss, fetched),
     run |-> [NoRun EXCEPT !.buttons = {"Fetch Reviews"}, !.fetched = fetched],
     scores |-> FALSE]

\* the handler of "Run Analysis" has left the local df_proc
WithAnalyzed(st, df_proc) ==
    [st EXCEPT !.ss = IF df_proc.ty = "DataFrame"
                      THEN [st.ss EXCEPT !["df_analyzed"] = df_proc] ELSE st.ss,
               !.run.buttons = @ \cup {"Run Analysis"},
               !.run.df_proc = df_proc]

\* the handler of "Generate Insights" has left the locals insights
WithInsights(st, insights) ==
    [st EXCEPT !.ss = AfterInsights(st.ss, insights),
               !.run.buttons = @ \cup {"Generate Insights"},
               !.run.insights = insights]

\* the themes, summary and recommendations are rendered
InsightsRendered(st) ==
    IF Truthy(st.ss["themes"]) /\ ~ThemesRender(st.ss["themes"])
    THEN Stopped(st, "TypeError")
    ELSE [st EXCEPT !.scores = Truthy(st.ss["recs"])]

\* what rendering stats raises: avg is formatted with f"{avg:.2f}"
StatsRaise(stats) ==
    IF stats.ty = "raise" THEN stats.exc
    ELSE IF stats.avg_rating = PyNone THEN "TypeError"
    ELSE "none"

\* step 2, after the statistics were rendered or raised exc
Step2(st, exc, click, in) ==
    IF exc # "none" THEN Stopped(st, exc)
    ELSE InsightsRendered(
             WithInsights(st, IF click = "Generate Insights"
                              THEN Insights(st.ss["df_analyzed"], in.rt, in.rs, in.rr)
                              ELSE Unset))

\* from df_analyzed = st.session_state["df_analyzed"] on
Results(st, click, in) ==
    IF st.ss["df_analyzed"] = PyNone THEN st
    ELSE Step2(st, StatsRaise(compute_basic_stats(st.ss["df_analyzed"])), click, in)

\* from df = st.session_state["df_raw"] on
Step1(st, click, in) ==
    IF st.ss["df_raw"] = PyNone THEN st
    ELSE Results(WithAnalyzed(st, IF click = "Run Analysis"
                                  THEN Analyze(st.ss["df_raw"], in.cast, in.sres)
                                  ELSE Unset),
                 click, in)

\* One run of the script in mode "Single Business Analysis" up to the
\* actionability step, with `click` the button pressed ("none": a run for
\* another reason).  in holds the values of the text inputs and what the
\* provider, the sentiment model and the LLM answer when they are called.
\* The result is st.session_state, the record of the run, and whether the
\* run goes on to the actionability step.
SingleRun(ss, click, configured, in) ==
    Step1(WithFetched(ss, IF click = "Fetch Reviews"
                          THEN FetchedOnClick(in.place_id, in.key, configured, in.resp)
                          ELSE Unset),
          click, in)

\* the run ends with the outcome of the actionability step; the feedback
\* buttons are rendered if nothing was raised
WithScoring(st, scoring) ==
    [ss |-> st.ss,
     run |-> IF scoring.exc # "none"
             THEN [st.run EXCEPT !.exc = scoring.exc, !.scoring = scoring]
             ELSE [st.run EXCEPT !.buttons = @ \cup {"Yes", "No"}, !.scoring = scoring]]

SingleRunScored(result, reply) == WithScoring(result, Scoring(reply))

\* the session state after the upload branch, df_uploaded being the local
\* read from the file if the branch was taken
AfterUpload(ss, df_uploaded) ==
    IF df_uploaded.ty = "DataFrame" /\ HasColumn(df_uploaded, "text")
    THEN [reset_single(ss) EXCEPT !["df_raw"] = df_uploaded,
                                  !["csv_uploaded_once"] = PyTrue]
    ELSE ss

\* pd.read_csv(uploaded)
read_csv(file) == IF file.ok THEN file.table ELSE Raise("ParserError")

\* One run of the script in mode "Upload CSV", file being the value of the
\* uploader.
CsvRun(ss, file) ==
    [ss |-> AfterUpload(ss, IF file # PyNone /\ ss["csv_uploaded_once"] = PyNone
                            THEN read_csv(file)
                            ELSE Unset),
     run |-> NoRun]

(***************************************************************************)
(* app.py: the script, mode "Compare Two Businesses".                      *)
(***************************************************************************)
CompareMode == "Compare Two Businesses"

\* mutant: the flag survives the reset
reset_competitor_keeps_compared(ss) ==
    [k \in SESSION_KEYS |->
        IF k \in {"df_A_raw", "df_B_raw", "A_processed", "B_processed", "A_themes", "B_themes",
                  "A_summary", "B_summary", "A_recs", "B_recs"}
        THEN PyNone ELSE ss[k]]

reset_competitor(ss) ==
    [k \in SESSION_KEYS |->
        IF k \in {"df_A_raw", "df_B_raw", "A_processed", "B_processed", "A_themes", "B_themes",
                  "A_summary", "B_summary", "A_recs", "B_recs", "compared"}
        THEN PyNone ELSE ss[k]]

\* the session key of a business: its raw or processed reviews, its themes,
\* summary or recommendations
Slot(biz, what) ==
    CASE what = "raw" -> IF biz = "A" THEN "df_A_raw" ELSE "df_B_raw"
      [] what = "processed" -> IF biz = "A" THEN "A_processed" ELSE "B_processed"
      [] what = "themes" -> IF biz = "A" THEN "A_themes" ELSE "B_themes"
      [] what = "summary" -> IF biz = "A" THEN "A_summary" ELSE "B_summary"
      [] what = "recs" -> IF biz = "A" THEN "A_recs" ELSE "B_recs"

\* what one run of the script in compare mode leaves behind besides
\* st.session_state: the exception that ended it, the buttons rendered, the
\* external calls issued in order, and the exception a try block caught
NoCompareRun == [exc |-> "none", buttons |-> {}, calls |-> <<>>, caught |-> "none"]

\* an external call is issued for business biz
Called(st, biz, kind) ==
    [st EXCEPT !.run.calls = Append(@, [biz |-> biz, kind |-> kind])]

\* a button is rendered
Rendered(st, button) == [st EXCEPT !.run.buttons = @ \cup {button}]

\* st.session_state[slot] = df, unless computing df raised: "Fetch Both"
\* has no try block
StoreFetched(st, slot, df) ==
    IF df.ty = "raise" THEN Stopped(st, df.exc) ELSE [st EXCEPT !.ss[slot] = df]

\* st.session_state[...] = fetch_google_maps_reviews(place, serpapi_key or None)
\* for one business; the request is sent when the key is usable
FetchInto(st, biz, place, key, configured, resp) ==
    IF st.run.exc # "none" THEN st
    ELSE StoreFetched(IF Truthy(EffectiveKey(Or(key, PyNone), configured))
                      THEN Called(st, biz, "fetch") ELSE st,
                      Slot(biz, "raw"),
                      fetch_google_maps_reviews(place, Or(key, PyNone), configured, resp))

\* mutant: business B is fetched before business A
FetchBoth_B_first(st, configured, in) ==
    IF ~Truthy(in.place_A) \/ ~Truthy(in.place_B) THEN st
    ELSE FetchInto(FetchInto([st EXCEPT !.ss = reset_competitor(@)],
                             "B", in.place_B, in.key, configured, in.resp_B),
                   "A", in.place_A, in.key, configured, in.resp_A)

\* the handler of "Fetch Both"
FetchBoth(st, configured, in) ==
    IF ~Truthy(in.place_A) \/ ~Truthy(in.place_B) THEN st
    ELSE FetchInto(FetchInto([st EXCEPT !.ss = reset_competitor(@)],
                             "A", in.place_A, in.key, configured, in.resp_A),
                   "B", in.place_B, in.key, configured, in.resp_B)

\* the sentiment model is called for a business when preprocess_reviews
\* returned: for A first, and for B only when A = add_sentiment(A) returned
Step1Called(st, in) ==
    IF preprocess_reviews(st.ss["df_A_raw"], in.cast_A).ty = "raise" THEN st
    ELSE IF Analyze(st.ss["df_A_raw"], in.cast_A, in.sres_A).ty = "raise"
            \/ preprocess_reviews(st.ss["df_B_raw"], in.cast_B).ty = "raise"
         THEN Called(st, "A", "sentiment")
    ELSE Called(Called(st, "A", "sentiment"), "B", "sentiment")

\* what the try block of "Run Step 1 for Both" raises
Step1Raises(A, B) ==
    IF A.ty = "raise" THEN A.exc ELSE IF B.ty = "raise" THEN B.exc ELSE "none"

\* the end of the try block: both slots are assigned once both locals A and
\* B are computed
StoreProcessed(st, A, B) ==
    IF Step1Raises(A, B) # "none" THEN [st EXCEPT !.run.caught = Step1Raises(A, B)]
    ELSE [st EXCEPT !.ss["A_processed"] = A, !.ss["B_processed"] = B]

\* the handler of "Run Step 1 for Both"
RunStep1(st, in) ==
    StoreProcessed(Step1Called(st, in),
                   Analyze(st.ss["df_A_raw"], in.cast_A, in.sres_A),
                   Analyze(st.ss["df_B_raw"], in.cast_B, in.sres_B))

\* one assignment st.session_state[slot] = v of the try block of "Generate
\* Combined Insights", v being what the function returns or raises and
\* issued whether it gets as far as its LLM call; nothing runs once the
\* block has raised
InsightInto(st, biz, what, issued, v) ==
    IF st.run.caught # "none" THEN st
    ELSE IF v.ty = "raise"
         THEN [(IF issued THEN Called(st, biz, what) ELSE st) EXCEPT !.run.caught = v.exc]
    ELSE [(IF issued THEN Called(st, biz, what) ELSE st) EXCEPT !.ss[Slot(biz, what)] = v]

ThemesInto(st, biz, reply) ==
    InsightInto(st, biz, "themes",
                HasColumn(st.ss[Slot(biz, "processed")], "clean_text"),
                extract_themes(st.ss[Slot(biz, "processed")], reply))

SummaryInto(st, biz, reply) ==
    InsightInto(st, biz, "summary",
                HasColumn(st.ss[Slot(biz, "processed")], "clean_text"),
                summarize_reviews(st.ss[Slot(biz, "processed")], reply))

RecsInto(st, biz, reply) ==
    InsightInto(st, biz, "recs",
                /\ HasColumn(st.ss[Slot(biz, "processed")], "sentiment")
                /\ st.ss[Slot(biz, "themes")].ty = "dict",
                generate_recommendations(st.ss[Slot(biz, "processed")],
                                         st.ss[Slot(biz, "themes")], reply))

\* st.session_state["compared"] = True at the end of the try block
SetCompared(st) ==
    IF st.run.caught # "none" THEN st ELSE [st EXCEPT !.ss["compared"] = PyTrue]

\* the handler of "Generate Combined Insights"
GenerateCombinedInsights(st, in) ==
    SetCompared(
      RecsInto(RecsInto(
        SummaryInto(SummaryInto(
          ThemesInto(ThemesInto(st, "A", in.themes_A), "B", in.themes_B),
          "A", in.summary_A), "B", in.summary_B),
        "A", in.recs_A), "B", in.recs_B))

\* what rendering the themes of one business raises: A_t.get(...) needs a
\* mapping, and "• " + t a str
ThemesRaise(themes) ==
    IF themes.ty # "dict" THEN "AttributeError"
    ELSE IF ~ThemesRender(themes) THEN "TypeError"
    ELSE "none"

\* from  if st.session_state["compared"]  on: the themes, summaries and
\* recommendations of both businesses, then the competitor insight, an LLM
\* call inside a try block
Comparison(st) ==
    IF ~Truthy(st.ss["compared"]) THEN st
    ELSE IF ThemesRaise(st.ss["A_themes"]) # "none"
         THEN Stopped(st, ThemesRaise(st.ss["A_themes"]))
    ELSE IF ThemesRaise(st.ss["B_themes"]) # "none"
         THEN Stopped(st, ThemesRaise(st.ss["B_themes"]))
    ELSE Called(st, "AB", "insight")

\* what rendering the statistics of both businesses raises
BothStatsRaise(A, B) ==
    IF StatsRaise(compute_basic_stats(A)) # "none" THEN StatsRaise(compute_basic_stats(A))
    ELSE StatsRaise(compute_basic_stats(B))

\* from  A = st.session_state["A_processed"]  on
CompareResults(st, click, in) ==
    IF st.ss["A_processed"] = PyNone \/ st.ss["B_processed"] = PyNone THEN Comparison(st)
    ELSE IF BothStatsRaise(st.ss["A_processed"], st.ss["B_processed"]) # "none"
         THEN Stopped(st, BothStatsRaise(st.ss["A_processed"], st.ss["B_processed"]))
    ELSE Comparison(IF click = "Generate Combined Insights"
                    THEN GenerateCombinedInsights(Rendered(st, click), in)
                    ELSE Rendered(st, "Generate Combined Insights"))

\* from  dfA = st.session_state["df_A_raw"]  on; st.stop() while a business
\* has no reviews
CompareStep1(st, click, in) ==
    IF st.run.exc # "none" THEN st
    ELSE IF st.ss["df_A_raw"] = PyNone \/ st.ss["df_B_raw"] = PyNone THEN st
    ELSE CompareResults(IF click = "Run Step 1 for Both"
                        THEN RunStep1(Rendered(st, click), in)
                        ELSE Rendered(st, "Run Step 1 for Both"),
                        click, in)

\* One run of the script in mode "Compare Two Businesses", with `click` the
\* button pressed ("none": a run for another reason)
CompareRun(ss, click, configured, in) ==
    CompareStep1(IF click = "Fetch Both"
                 THEN FetchBoth(Rendered([ss |-> ss, run |-> NoCompareRun], click),
                                configured, in)
                 ELSE Rendered([ss |-> ss, run |-> NoCompareRun], "Fetch Both"),
                 click, in)

(***************************************************************************)
(* Calls of clean_text.                                                    *)
(***************************************************************************)
CleanOff == text = Unset /\ cleaned = Unset /\ recleaned = Unset

InitClean == text \in Texts /\ cleaned = Unset /\ recleaned = Unset

\* cleaned = clean_text(text)
CleanText ==
    /\ text # Unset /\ cleaned = Unset
    /\ cleaned' = clean_text(text)
    /\ UNCHANGED <<text, recleaned, NotClean>>

\* recleaned = clean_text(cleaned)
CleanTextAgain ==
    /\ cleaned # Unset /\ recleaned = Unset
    /\ recleaned' = clean_text(cleaned)
    /\ UNCHANGED <<text, cleaned, NotClean>>

(***************************************************************************)
(* Calls of preprocess_reviews.                                            *)
(***************************************************************************)
MaxRows == 2

\* the raw text of one review: fetched snippets are str, a CSV cell can be
\* empty (NaN), a number or (in a frame built by hand) None
RawCells ==
    { PyNone, PyNaN, PyInt(5), Str(<<>>), Str(<<"H", "i", "!">>), Str(<<" ", "a", "#">>) }

SeqsUpTo(S, n) == UNION { [1..k -> S] : k \in 0..n }

RawFrames ==
    { DataFrame(<<"text">>, [i \in 1..Len(cells) |-> [k \in {"text"} |-> cells[i]]]) :
        cells \in SeqsUpTo(RawCells, MaxRows) }
    \cup { DataFrame(<<"review">>, [i \in 1..Len(cells) |-> [k \in {"review"} |-> cells[i]]]) :
        cells \in SeqsUpTo({Str(<<"H", "i", "!">>)}, MaxRows) }

PreOff == pre_df = Unset /\ pre_out = Unset

InitPre == pre_df \in RawFrames /\ pre_out = Unset

\* pre_out = preprocess_reviews(pre_df)
PreprocessReviews ==
    /\ pre_df # Unset /\ pre_out = Unset
    /\ IF HasColumn(pre_df, "text")
       THEN \E cast \in AstypeStrColumn(Column(pre_df, "text")) :
                pre_out' = preprocess_reviews(pre_df, cast)
       ELSE pre_out' = preprocess_reviews(pre_df, <<>>)
    /\ UNCHANGED <<pre_df, NotPre>>

(***************************************************************************)
(* Calls of add_sentiment.                                                 *)
(***************************************************************************)
MaxLabelFragments == 3

LabelFragments ==
    { <<"p", "o", "s">>, <<"P", "O", "S">>, <<"n", "e", "g">>, <<"N", "E", "G">>,
      <<"P", "o">>, <<"s">>, <<"n", "E">>, <<"L", "A", "B", "E", "L", "_", "1">> }

SentimentScores == {99}

\* the batches of results the model can return: sequences of
\* {label, score} whose labels are made of at most n fragments in all
RECURSIVE ResultBatches(_)
ResultBatches(n) ==
    IF n = 0 THEN { <<>> }
    ELSE LET shorter == ResultBatches(n - 1)
         IN  shorter
             \cup { <<[label |-> f, score |-> sc]>> \o b :
                      f \in LabelFragments, sc \in SentimentScores, b \in shorter }
             \cup { <<[label |-> f \o Head(b).label, score |-> Head(b).score]>> \o Tail(b) :
                      f \in LabelFragments, b \in shorter \ { <<>> } }

\* a preprocessed frame of n reviews
CleanFrame(n) ==
    DataFrame(<<"text", "clean_text">>,
              [i \in 1..n |-> [k \in {"text", "clean_text"} |-> Str(<<"a">>)]])

SentOff == sent_df = Unset /\ sent_results = Unset /\ sent_out = Unset

InitSent ==
    /\ \E b \in ResultBatches(MaxLabelFragments) :
           sent_results = b /\ sent_df = CleanFrame(Len(b))
    /\ sent_out = Unset

\* sent_out = add_sentiment(sent_df), the model answering sent_results
AddSentiment ==
    /\ sent_df # Unset /\ sent_out = Unset
    /\ sent_out' = add_sentiment(sent_df, sent_results)
    /\ UNCHANGED <<sent_df, sent_results, NotSent>>

\* the model call fails: the exception leaves add_sentiment
AddSentimentModelFails ==
    /\ sent_df # Unset /\ sent_out = Unset
    /\ sent_out' = Raise("Exception")
    /\ UNCHANGED <<sent_df, sent_results, NotSent>>

(***************************************************************************)
(* Calls of fetch_google_maps_reviews.                                     *)
(***************************************************************************)
ApiKeys == { PyNone, Str(<<>>), Str(<<"key">>) }

ConfiguredKeys == { Str(<<>>), Str(<<"envkey">>) }

PlaceIds == { Str(<<>>), Str(<<"ChIJ">>) }

\* response bodies: "reviews" absent, empty, null, a str, a dict, a number,
\* a list of numbers, lists of review objects, a JSON list, no JSON at all
ResponseBodies ==
    { <<"{", "}">>,
      <<"{", "\"reviews\"", ":", "[", "]", "}">>,
      <<"{", "\"reviews\"", ":", "null", "}">>,
      <<"{", "\"reviews\"", ":", "\"x\"", "}">>,
      <<"{", "\"reviews\"", ":", "\"\"", "}">>,
      <<"{", "\"reviews\"", ":", "{", "}", "}">>,
      <<"{", "\"reviews\"", ":", "{", "\"user\"", ":", "\"x\"", "}", "}">>,
      <<"{", "\"reviews\"", ":", "7", "}">>,
      <<"{", "\"reviews\"", ":", "0", "}">>,
      <<"{", "\"reviews\"", ":", "[", "7", "]", "}">>,
      <<"{", "\"reviews\"", ":", "[", "{", "\"user\"", ":", "\"x\"", "}", ",", "null", "]", "}">>,
      <<"{", "\"reviews\"", ":", "[", "{", "\"user\"", ":", "\"x\"", ",", "\"rating\"", ":", "5",
        ",", "\"date\"", ":", "\"x\"", ",", "\"snippet\"", ":", "\"x\"", "}", "]", "}">>,
      <<"{", "\"reviews\"", ":", "[", "{", "\"review\"", ":", "\"x\"", "}", ",",
        "{", "\"snippet\"", ":", "\"\"", ",", "\"review\"", ":", "\"x\"", "}", "]", "}">>,
      <<"[", "]">>,
      <<"Sure">> }

Responses ==
    { [kind |-> "response", status_code |-> c, body |-> Str(b)] :
        c \in {200, 403}, b \in ResponseBodies }
    \cup { [kind |-> "ConnectionError"] }

FetchOff ==
    /\ fetch_call = Unset /\ http_calls = 0 /\ fetch_resp = Unset /\ fetch_out = Unset

InitFetch ==
    /\ SERPAPI_API_KEY \in ConfiguredKeys
    /\ fetch_call \in [place_id : PlaceIds, api_key : ApiKeys]
    /\ http_calls = 0 /\ fetch_resp = Unset /\ fetch_out = Unset

\* fetch_out = fetch_google_maps_reviews(place_id, api_key)
FetchReviews ==
    /\ fetch_call # Unset /\ fetch_out = Unset
    /\ IF Truthy(EffectiveKey(fetch_call.api_key, SERPAPI_API_KEY))
       THEN \E resp \in Responses :
                /\ http_calls' = http_calls + 1
                /\ fetch_resp' = resp
                /\ fetch_out' = fetch_google_maps_reviews(fetch_call.place_id,
                                    fetch_call.api_key, SERPAPI_API_KEY, resp)
       ELSE /\ fetch_out' = fetch_google_maps_reviews(fetch_call.place_id,
                                    fetch_call.api_key, SERPAPI_API_KEY, Unset)
            /\ UNCHANGED <<http_calls, fetch_resp>>
    /\ UNCHANGED <<SERPAPI_API_KEY, fetch_call, NotFetch>>

(***************************************************************************)
(* Calls of compute_basic_stats.                                           *)
(***************************************************************************)
Ratings == { PyInt(5), PyInt(3), PyNaN }

Sentiments == { "positive", "negative", "neutral" }

\* frames of at most MaxRows reviews with or without a rating and a
\* sentiment column, and the empty frame of the fetcher
StatsFrames ==
    { DataFrame(IF r THEN (IF t THEN <<"rating", "sentiment">> ELSE <<"rating">>)
                     ELSE (IF t THEN <<"sentiment">> ELSE <<"clean_text">>),
                [i \in 1..Len(cells) |->
                    [k \in (IF r THEN {"rating"} ELSE {}) \cup (IF t THEN {"sentiment"} ELSE {})
                           \cup (IF ~r /\ ~t THEN {"clean_text"} ELSE {}) |->
                        CASE k = "rating" -> cells[i][1]
                          [] k = "sentiment" -> cells[i][2]
                          [] k = "clean_text" -> Str(<<"a">>)]]) :
        r \in BOOLEAN, t \in BOOLEAN, cells \in SeqsUpTo(Ratings \X Sentiments, MaxRows) }
    \cup { EmptyReviews }

StatsOff == stats_df = Unset /\ stats_out = Unset

InitStats == stats_df \in StatsFrames /\ stats_out = Unset

\* stats_out = compute_basic_stats(stats_df)
ComputeBasicStats ==
    /\ stats_df # Unset /\ stats_out = Unset
    /\ stats_out' = compute_basic_stats(stats_df)
    /\ UNCHANGED <<stats_df, NotStats>>

(***************************************************************************)
(* Calls of extract_themes.                                                *)
(***************************************************************************)
MaxReplyFragments == 4

ReplyFragments ==
    { <<"{">>, <<"}">>, <<"[">>, <<"]">>, <<":">>, <<",">>,
      <<"\"positive\"", ":", "[", "\"x\"", "]">>,
      <<"\"negative\"">>, <<"7">>, <<"null">>, <<" ">>, <<"Sure">> }

RECURSIVE ReplyTexts(_)
ReplyTexts(n) ==
    IF n = 0 THEN { <<>> }
    ELSE LET shorter == ReplyTexts(n - 1)
         IN  shorter \cup { f \o r : f \in ReplyFragments, r \in shorter }

\* what the chat completion call can do
Replies(texts) ==
    { [kind |-> "message", content |-> Str(t)] : t \in texts }
    \cup { [kind |-> "message", content |-> PyNone], [kind |-> "error"] }

ThemesOff == themes_df = Unset /\ llm_reply = Unset /\ themes_out = Unset

InitThemes ==
    /\ themes_df \in { CleanFrame(1), DataFrame(<<"text">>, <<>>) }
    /\ llm_reply \in Replies(ReplyTexts(MaxReplyFragments))
    /\ themes_out = Unset

\* themes_out = extract_themes(themes_df)
ExtractThemes ==
    /\ themes_df # Unset /\ themes_out = Unset
    /\ themes_out' = extract_themes(themes_df, llm_reply)
    /\ UNCHANGED <<themes_df, llm_reply, NotThemes>>

(***************************************************************************)
(* The user at the dashboard.                                              *)
(***************************************************************************)
\* the modes of the radio that read and write the single-business slots
Modes == { "Single Business Analysis", "Upload CSV" }

\* the value of the key text input
SidebarKeys == { Str(<<>>), Str(<<"key">>) }

\* what the provider answers: no connection, an error status, no reviews,
\* one review, two reviews
AppResponses ==
    { [kind |-> "ConnectionError"],
      [kind |-> "response", status_code |-> 200, body |-> Str(<<"{", "}">>)],
      [kind |-> "response", status_code |-> 200, body |->
          Str(<<"{", "\"reviews\"", ":", "[", "{", "\"user\"", ":", "\"x\"", ",", "\"rating\"",
                ":", "5", ",", "\"snippet\"", ":", "\"x\"", "}", "]", "}">>)],
      [kind |-> "response", status_code |-> 200, body |->
          Str(<<"{", "\"reviews\"", ":", "[", "{", "\"rating\"", ":", "7", ",", "\"review\"",
                ":", "\"x\"", "}", ",", "{", "\"rating\"", ":", "5", "}", "]", "}">>)] }

\* the files the user can put in the uploader: one that read_csv rejects,
\* a table without a text column, a table with text and rating, a table
\* with text only
CsvFiles ==
    { [ty |-> "file", ok |-> FALSE],
      [ty |-> "file", ok |-> TRUE, table |->
          DataFrame(<<"review">>, <<[k \in {"review"} |-> Str(<<"H", "i", "!">>)]>>)],
      [ty |-> "file", ok |-> TRUE, table |->
          DataFrame(<<"text", "rating">>,
                    <<[k \in {"text", "rating"} |->
                         IF k = "text" THEN Str(<<"H", "i", "!">>) ELSE PyInt(5)]>>)],
      [ty |-> "file", ok |-> TRUE, table |->
          DataFrame(<<"text">>, <<[k \in {"text"} |-> Str(<<" ", "a", "#">>)]>>)] }

\* what the sentiment model does for n texts
SentimentOutcomes(n) ==
    { [kind |-> "results", results |-> r] :
        r \in [1..n -> { [label |-> <<"P", "O", "S">>, score |-> 99],
                         [label |-> <<"N", "E", "G">>, score |-> 99] }] }
    \cup { [kind |-> "error"] }

ThemeReplies ==
    Replies({ <<"{", "\"positive\"", ":", "[", "\"x\"", "]", ",", "\"negative\"", ":", "[", "]", "}">>,
              <<"{", "\"positive\"", ":", "7", "}">>,
              <<"Sure">> })

SummaryReplies == { [kind |-> "message", content |-> Str(<<"good">>)], [kind |-> "error"] }

RecsReplies ==
    { [kind |-> "message", content |-> Str(<<"hire">>)],
      [kind |-> "message", content |-> Str(<<" ">>)],
      [kind |-> "error"] }

EvalReplies ==
    Replies({ <<"{", "\"score\"", ":", "7", ",", "\"reason\"", ":", "\"x\"", "}">>,
              <<"{", "\"score\"", ":", "7", "}">>,
              <<"{", "\"reason\"", ":", "\"x\"", "}">>,
              <<"{", "\"score\"", ":", "[", "]", ",", "\"reason\"", ":", "\"x\"", "}">>,
              <<"[", "7", "]">>, <<"7">>, <<"\"x\"">>, <<"null">>, <<"Sure">> })

NoInput ==
    [place_id |-> Unset, key |-> Unset, resp |-> Unset, cast |-> Unset, sres |-> Unset,
     rt |-> Unset, rs |-> Unset, rr |-> Unset]

InitApp ==
    /\ SERPAPI_API_KEY \in ConfiguredKeys
    /\ session_state = [k \in SESSION_KEYS |-> PyNone]
    /\ mode = "Single Business Analysis"
    /\ uploaded = PyNone
    /\ run = [NoRun EXCEPT !.buttons = {"Fetch Reviews"}]

\* the script has run: its session state and its record are kept
Ran(result) ==
    /\ session_state' = result.ss
    /\ run' = result.run

\* the script runs in mode "Single Business Analysis"; the LLM is asked for
\* an actionability score when the run gets that far
RanSingle(result) ==
    IF result.scores
    THEN \E re \in EvalReplies : Ran(SingleRunScored(result, re))
    ELSE Ran(result)

\* the user presses "Fetch Reviews"
ClickFetchReviews ==
    /\ mode = "Single Business Analysis"
    /\ \E place_id \in PlaceIds, key \in SidebarKeys, resp \in AppResponses :
           RanSingle(SingleRun(session_state, "Fetch Reviews", SERPAPI_API_KEY,
                               [NoInput EXCEPT !.place_id = place_id, !.key = key,
                                               !.resp = resp]))
    /\ UNCHANGED <<mode, uploaded, SERPAPI_API_KEY>>

\* the user presses "Run Analysis"
ClickRunAnalysis ==
    /\ mode = "Single Business Analysis"
    /\ "Run Analysis" \in run.buttons
    /\ \E cast \in AstypeStrColumn(Column(session_state["df_raw"], "text")),
          sres \in SentimentOutcomes(Len(session_state["df_raw"].rows)) :
           RanSingle(SingleRun(session_state, "Run Analysis", SERPAPI_API_KEY,
                               [NoInput EXCEPT !.cast = cast, !.sres = sres]))
    /\ UNCHANGED <<mode, uploaded, SERPAPI_API_KEY>>

\* the user presses "Generate Insights"
ClickGenerateInsights ==
    /\ mode = "Single Business Analysis"
    /\ "Generate Insights" \in run.buttons
    /\ \E rt \in ThemeReplies, rs \in SummaryReplies, rr \in RecsReplies :
           RanSingle(SingleRun(session_state, "Generate Insights", SERPAPI_API_KEY,
                               [NoInput EXCEPT !.rt = rt, !.rs = rs, !.rr = rr]))
    /\ UNCHANGED <<mode, uploaded, SERPAPI_API_KEY>>

\* the user presses a feedback button, or edits a text input: the script
\* runs with no handler to execute
RerunSingle ==
    /\ mode = "Single Business Analysis"
    /\ \E click \in {"none"} \cup (run.buttons \cap {"Yes", "No"}) :
           RanSingle(SingleRun(session_state, click, SERPAPI_API_KEY, NoInput))
    /\ UNCHANGED <<mode, uploaded, SERPAPI_API_KEY>>

\* the user picks the other mode: the widgets of the mode left are gone
SelectMode ==
    /\ \E m \in Modes \ {mode} :
        /\ mode' = m
        /\ IF m = "Upload CSV"
           THEN Ran(CsvRun(session_state, PyNone))
           ELSE RanSingle(SingleRun(session_state, "none", SERPAPI_API_KEY, NoInput))
    /\ uploaded' = PyNone
    /\ UNCHANGED SERPAPI_API_KEY

\* the user puts a file in the uploader, or another file in place of it
UploadCsv ==
    /\ mode = "Upload CSV"
    /\ \E file \in CsvFiles \ {uploaded} :
        /\ uploaded' = file
        /\ Ran(CsvRun(session_state, file))
    /\ UNCHANGED <<mode, SERPAPI_API_KEY>>

\* the user takes the file out of the uploader
RemoveCsv ==
    /\ mode = "Upload CSV"
    /\ uploaded # PyNone
    /\ uploaded' = PyNone
    /\ Ran(CsvRun(session_state, PyNone))
    /\ UNCHANGED <<mode, SERPAPI_API_KEY>>

(***************************************************************************)
(* The user at the dashboard in mode "Compare Two Businesses".             *)
(***************************************************************************)
\* what the provider answers for one business: no connection, no reviews,
\* one review
CompareResponses == { r \in AppResponses : r.kind = "response" => Len(r.body.s) < 20 }

\* what the LLM does when asked for the themes and the recommendations of
\* one business: JSON that is no mapping, a mapping whose themes are not a
\* list, or a failed call; recommendations, or a failed call
CompareThemeReplies ==
    { [kind |-> "message", content |-> Str(<<"null">>)],
      [kind |-> "message", content |-> Str(<<"{", "\"positive\"", ":", "7", "}">>)],
      [kind |-> "error"] }

CompareRecsReplies == { r \in RecsReplies : r.kind = "message" => r.content = Str(<<"hire">>) }

NoCompareInput ==
    [place_A |-> Unset, place_B |-> Unset, key |-> Unset, resp_A |-> Unset, resp_B |-> Unset,
     cast_A |-> Unset, sres_A |-> Unset, cast_B |-> Unset, sres_B |-> Unset,
     themes_A |-> Unset, themes_B |-> Unset, summary_A |-> Unset, summary_B |-> Unset,
     recs_A |-> Unset, recs_B |-> Unset]

\* the session starts and the user picks the mode: every slot is None and
\* the script has run once in compare mode
InitCompare ==
    /\ SERPAPI_API_KEY \in ConfiguredKeys
    /\ session_state = [k \in SESSION_KEYS |-> PyNone]
    /\ mode = CompareMode
    /\ uploaded = PyNone
    /\ run = [NoCompareRun EXCEPT !.buttons = {"Fetch Both"}]

\* the user presses "Fetch Both"
ClickFetchBoth ==
    /\ mode = CompareMode
    /\ \E place_A \in PlaceIds, place_B \in PlaceIds, key \in SidebarKeys,
          resp_A \in CompareResponses, resp_B \in CompareResponses :
           Ran(CompareRun(session_state, "Fetch Both", SERPAPI_API_KEY,
                          [NoCompareInput EXCEPT !.place_A = place_A, !.place_B = place_B,
                                                 !.key = key, !.resp_A = resp_A,
                                                 !.resp_B = resp_B]))
    /\ UNCHANGED <<mode, uploaded, SERPAPI_API_KEY>>

\* the user presses "Run Step 1 for Both"
ClickRunStep1ForBoth ==
    /\ mode = CompareMode
    /\ "Run Step 1 for Both" \in run.buttons
    /\ \E cast_A \in AstypeStrColumn(Column(session_state["df_A_raw"], "text")),
          sres_A \in SentimentOutcomes(Len(session_state["df_A_raw"].rows)),
          cast_B \in AstypeStrColumn(Column(session_state["df_B_raw"], "text")),
          sres_B \in SentimentOutcomes(Len(session_state["df_B_raw"].rows)) :
           Ran(CompareRun(session_state, "Run Step 1 for Both", SERPAPI_API_KEY,
                          [NoCompareInput EXCEPT !.cast_A = cast_A, !.sres_A = sres_A,
                                                 !.cast_B = cast_B, !.sres_B = sres_B]))
    /\ UNCHANGED <<mode, uploaded, SERPAPI_API_KEY>>

\* the user presses "Generate Combined Insights"
ClickGenerateCombinedInsights ==
    /\ mode = CompareMode
    /\ "Generate Combined Insights" \in run.buttons
    /\ \E themes_A \in CompareThemeReplies, themes_B \in CompareThemeReplies,
          summary_A \in SummaryReplies, summary_B \in SummaryReplies,
          recs_A \in CompareRecsReplies, recs_B \in CompareRecsReplies :
           Ran(CompareRun(session_state, "Generate Combined Insights", SERPAPI_API_KEY,
                          [NoCompareInput EXCEPT !.themes_A = themes_A, !.themes_B = themes_B,
                                                 !.summary_A = summary_A,
                                                 !.summary_B = summary_B,
                                                 !.recs_A = recs_A, !.recs_B = recs_B]))
    /\ UNCHANGED <<mode, uploaded, SERPAPI_API_KEY>>

\* the user edits a text input: the script runs with no handler to execute
RerunCompare ==
    /\ mode = CompareMode
    /\ Ran(CompareRun(session_state, "none", SERPAPI_API_KEY, NoCompareInput))
    /\ UNCHANGED <<mode, uploaded, SERPAPI_API_KEY>>

(***************************************************************************)
(* Specifications.                                                         *)
(***************************************************************************)
ConfigOff == SERPAPI_API_KEY = Unset

AppOff == session_state = Unset /\ mode = "off" /\ uploaded = Unset /\ run = Unset

InitCleanCalls == InitClean /\ PreOff /\ SentOff /\ ConfigOff /\ FetchOff /\ StatsOff /\ ThemesOff /\ AppOff

NextClean == CleanText \/ CleanTextAgain

SpecClean == InitCleanCalls /\ [][NextClean]_vars

InitPreCalls == InitPre /\ CleanOff /\ SentOff /\ ConfigOff /\ FetchOff /\ StatsOff /\ ThemesOff /\ AppOff

NextPre == PreprocessReviews

SpecPre == InitPreCalls /\ [][NextPre]_vars

InitSentCalls == InitSent /\ CleanOff /\ PreOff /\ ConfigOff /\ FetchOff /\ StatsOff /\ ThemesOff /\ AppOff

NextSent == AddSentiment \/ AddSentimentModelFails

SpecSent == InitSentCalls /\ [][NextSent]_vars

InitFetchCalls == InitFetch /\ CleanOff /\ PreOff /\ SentOff /\ StatsOff /\ ThemesOff /\ AppOff

NextFetch == FetchReviews

SpecFetch == InitFetchCalls /\ [][NextFetch]_vars

InitStatsCalls == InitStats /\ CleanOff /\ PreOff /\ SentOff /\ ConfigOff /\ FetchOff /\ ThemesOff /\ AppOff

NextStats == ComputeBasicStats

SpecStats == InitStatsCalls /\ [][NextStats]_vars

InitThemesCalls ==
    InitThemes /\ CleanOff /\ PreOff /\ SentOff /\ ConfigOff /\ FetchOff /\ StatsOff /\ AppOff

NextThemes == ExtractThemes

SpecThemes == InitThemesCalls /\ [][NextThemes]_vars

Init ==
    InitApp /\ CleanOff /\ PreOff /\ SentOff /\ FetchOff /\ StatsOff /\ ThemesOff

Next ==
    \/ ClickFetchReviews /\ UNCHANGED NotApp
    \/ ClickRunAnalysis /\ UNCHANGED NotApp
    \/ ClickGenerateInsights /\ UNCHANGED NotApp
    \/ RerunSingle /\ UNCHANGED NotApp
    \/ SelectMode /\ UNCHANGED NotApp
    \/ UploadCsv /\ UNCHANGED NotApp
    \/ RemoveCsv /\ UNCHANGED NotApp

Spec == Init /\ [][Next]_vars

InitCompareCalls ==
    InitCompare /\ CleanOff /\ PreOff /\ SentOff /\ FetchOff /\ StatsOff /\ ThemesOff

NextCompare ==
    \/ ClickFetchBoth /\ UNCHANGED NotApp
    \/ ClickRunStep1ForBoth /\ UNCHANGED NotApp
    \/ ClickGenerateCombinedInsights /\ UNCHANGED NotApp
    \/ RerunCompare /\ UNCHANGED NotApp

SpecCompare == InitCompareCalls /\ [][NextCompare]_vars

(***************************************************************************)
(* Claims.                                                                 *)
(***************************************************************************)

\* C1: text cleaning is idempotent: clean_text(clean_text(s)) = clean_text(s)
\* for every input s, upper-case URL prefixes included.
C1_CleanIdempotent == recleaned # Unset => recleaned = cleaned

\* s holds the three characters w one after the other
HasSubstring(s, w) == \E k \in 1..(Len(s) - 2) : SubSeq(s, k, k + 2) = w

\* C2: in add_sentiment a label whose lower-cased form contains "pos" maps to
\* "positive", otherwise one that contains "neg" maps to "negative", and any
\* other label maps to "neutral"; no other value is produced.
C2_LabelMapping ==
    (sent_out # Unset /\ sent_out.ty = "DataFrame") =>
        /\ Len(sent_out.rows) = Len(sent_results)
        /\ \A i \in 1..Len(sent_results) :
             LET l == lower(sent_results[i].label)
                 mapped == sent_out.rows[i]["sentiment"]
             IN  /\ mapped \in {"positive", "negative", "neutral"}
                 /\ HasSubstring(l, <<"p", "o", "s">>) => mapped = "positive"
                 /\ (~HasSubstring(l, <<"p", "o", "s">>) /\ HasSubstring(l, <<"n", "e", "g">>))
                        => mapped = "negative"
                 /\ (~HasSubstring(l, <<"p", "o", "s">>) /\ ~HasSubstring(l, <<"n", "e", "g">>))
                        => mapped = "neutral"

\* C2 witness: add_sentiment has mapped a batch that holds a label with both
\* "neg" and "pos" in it, not all lower-case, and the label LABEL_1.
C2_Witness ==
    /\ sent_out # Unset /\ sent_out.ty = "DataFrame"
    /\ \E i \in 1..Len(sent_results) :
         /\ HasSubstring(lower(sent_results[i].label), <<"n", "e", "g">>)
         /\ HasSubstring(lower(sent_results[i].label), <<"p", "o", "s">>)
         /\ ~HasSubstring(sent_results[i].label, <<"p", "o", "s">>)
         /\ sent_out.rows[i]["sentiment"] = "positive"
    /\ \E i \in 1..Len(sent_results) :
         /\ sent_results[i].label = <<"L", "A", "B", "E", "L", "_", "1">>
         /\ sent_out.rows[i]["sentiment"] = "neutral"

OutputChars == LowerLetters \cup Digits \cup KeptPunct \cup {" "}

\* C3: the output of clean_text holds only lower-case letters, digits,
\* spaces and . , ! ? ' ; it neither starts nor ends with whitespace and has
\* no two adjacent whitespace characters.
C3_CleanOutputShape ==
    cleaned # Unset =>
        /\ cleaned.ty = "str"
        /\ \A i \in 1..Len(cleaned.s) : cleaned.s[i] \in OutputChars
        /\ cleaned.s # <<>> =>
               cleaned.s[1] \notin Whitespace /\ cleaned.s[Len(cleaned.s)] \notin Whitespace
        /\ \A i \in 1..(Len(cleaned.s) - 1) :
               ~(cleaned.s[i] \in Whitespace /\ cleaned.s[i + 1] \in Whitespace)

\* C3 witness: an input with an upper-case letter and a symbol next to
\* whitespace or to another symbol (a run of whitespace once the symbols are
\* replaced) has been cleaned to a non-empty text.
C3_Witness ==
    /\ text.ty = "str" /\ cleaned # Unset /\ cleaned.s # <<>>
    /\ \E i \in 1..Len(text.s) : text.s[i] \in UpperLetters
    /\ \E i \in 1..Len(text.s) : text.s[i] \in Symbols
    /\ \E i \in 1..(Len(text.s) - 1) :
         /\ text.s[i] \in Whitespace \cup Symbols
         /\ text.s[i + 1] \in Whitespace \cup Symbols

\* C4: in preprocess_reviews every record whose raw text is not a str (None,
\* NaN, a number) gets the empty string as its clean_text.
C4_NonTextualBecomesEmpty ==
    (pre_out # Unset /\ pre_out.ty = "DataFrame") =>
        \A i \in 1..Len(pre_df.rows) :
            pre_df.rows[i]["text"].ty # "str" => pre_out.rows[i]["clean_text"] = Str(<<>>)

\* the call has no usable key: the argument is None with nothing configured,
\* or the argument is the empty string
NoUsableKey ==
    \/ fetch_call.api_key = PyNone /\ SERPAPI_API_KEY = Str(<<>>)
    \/ fetch_call.api_key = Str(<<>>)

\* C5: fetch_google_maps_reviews called with no usable API key raises
\* ValueError and has made no HTTP request.
C5_NoKeyNoRequest ==
    (fetch_out # Unset /\ NoUsableKey) =>
        fetch_out = Raise("ValueError") /\ http_calls = 0 /\ fetch_resp = Unset

\* C5 witness: a call with the empty string as key has returned while a
\* non-empty key is configured.
C5_Witness ==
    /\ fetch_out # Unset
    /\ fetch_call.api_key = Str(<<>>)
    /\ SERPAPI_API_KEY = Str(<<"envkey">>)

\* v is a non-empty list of review objects
ReviewObjects(v) == v.ty = "list" /\ v.l # <<>> /\ \A i \in 1..Len(v.l) : v.l[i].ty = "dict"

\* C6: for every success response whose "reviews" field is absent, empty or
\* malformed (anything but a list of review objects),
\* fetch_google_maps_reviews returns the empty frame with the columns author,
\* rating, date, text and raises nothing.
C6_MalformedReviewsGiveEmptyFrame ==
    (/\ fetch_out # Unset /\ fetch_resp # Unset
     /\ fetch_resp.kind = "response" /\ fetch_resp.status_code = 200
     /\ json_loads(fetch_resp.body).ty = "dict"
     /\ ~ReviewObjects(DictGet(json_loads(fetch_resp.body), <<"reviews">>, List(<<>>))))
    => fetch_out = DataFrame(<<"author", "rating", "date", "text">>, <<>>)

\* C8: compute_basic_stats applied to an empty collection without a rating
\* column returns total_reviews = 0 and avg_rating = None and does not raise,
\* whatever other columns the collection has or lacks.
C8_EmptyStatsNeverRaise ==
    (stats_out # Unset /\ stats_df.rows = <<>> /\ ~HasColumn(stats_df, "rating")) =>
        /\ stats_out.ty = "stats"
        /\ stats_out.total_reviews = 0
        /\ stats_out.avg_rating = PyNone

\* C8 as amended: compute_basic_stats applied to an empty collection that has
\* a sentiment column and no rating column returns total_reviews = 0 and
\* avg_rating = None and does not raise.
C8_EmptyStatsWithSentiment ==
    (/\ stats_out # Unset /\ stats_df.rows = <<>>
     /\ ~HasColumn(stats_df, "rating") /\ HasColumn(stats_df, "sentiment")) =>
        /\ stats_out.ty = "stats"
        /\ stats_out.total_reviews = 0
        /\ stats_out.avg_rating = PyNone

\* C8 witness: compute_basic_stats has returned for an empty collection with
\* a sentiment column and no rating column.
C8_Witness ==
    /\ stats_out # Unset /\ stats_df.rows = <<>>
    /\ ~HasColumn(stats_df, "rating") /\ HasColumn(stats_df, "sentiment")

\* C7: extract_themes does not raise because of the text of the LLM reply:
\* a reply that is a JSON mapping is returned parsed, and for any other text
\* (no JSON, or a JSON list, number, string or null) the result is
\* {positive: [], negative: [], raw: <the text _call_llm returned>}.
C7_ThemesParseOrFallback ==
    (/\ themes_out # Unset /\ HasColumn(themes_df, "clean_text")
     /\ llm_reply.kind = "message" /\ llm_reply.content.ty = "str") =>
        LET raw == call_llm(llm_reply)
            parsed == json_loads(raw)
        IN  /\ themes_out.ty = "dict"
            /\ parsed.ty = "dict" => themes_out = parsed
            /\ parsed.ty # "dict" =>
                 /\ DOMAIN themes_out.d = { <<"positive">>, <<"negative">>, <<"raw">> }
                 /\ themes_out.d[<<"positive">>] = List(<<>>)
                 /\ themes_out.d[<<"negative">>] = List(<<>>)
                 /\ themes_out.d[<<"raw">>] = raw

\* C7 witness: extract_themes has returned the fallback for a reply that is
\* valid JSON but a list.
C7_Witness ==
    /\ themes_out # Unset /\ themes_out.ty = "dict"
    /\ llm_reply.kind = "message" /\ llm_reply.content.ty = "str"
    /\ json_loads(call_llm(llm_reply)).ty = "list"
    /\ <<"raw">> \in DOMAIN themes_out.d

\* C9: the actionability step never propagates an exception caused by the
\* LLM's answer: whenever a run reaches the step, whether the LLM call fails
\* or returns any text, nothing is raised and what is displayed is the
\* score and reason of the parsed answer or those of the sentinel.
C9_ScoringNeverRaises ==
    run.scoring # Unset =>
        /\ run.scoring.exc = "none"
        /\ \/ /\ run.scoring.score = Sentinel.d[<<"score">>]
              /\ run.scoring.reason = Sentinel.d[<<"reason">>]
           \/ /\ run.scoring.score = Subscript(Eva(run.scoring.reply), <<"score">>)
              /\ run.scoring.reason = Subscript(Eva(run.scoring.reply), <<"reason">>)

\* C10: a successful re-run of a step leaves its slot holding the result of
\* the latest run: the reviews just fetched are df_raw, the frame just
\* analysed is df_analyzed, the insights just generated are themes, summary
\* and recs, and while a readable CSV file with a text column is in the
\* uploader df_raw is the table of that file.
C10_RerunOverwritesSlot ==
    /\ (run.fetched.ty = "DataFrame" /\ run.fetched.rows # <<>>) =>
           session_state["df_raw"] = run.fetched
    /\ run.df_proc.ty = "DataFrame" => session_state["df_analyzed"] = run.df_proc
    /\ run.insights.ty = "insights" =>
           /\ session_state["themes"] = run.insights.themes
           /\ session_state["summary"] = run.insights.summary
           /\ session_state["recs"] = run.insights.recs
    /\ (/\ mode = "Upload CSV" /\ uploaded # PyNone
        /\ uploaded.ok /\ HasColumn(uploaded.table, "text")) =>
           session_state["df_raw"] = uploaded.table
\* the external calls of the latest run made for business A or business B
BusinessCalls ==
    LET ForBusiness(c) == c.biz \in {"A", "B"}
    IN  SelectSeq(run.calls, ForBusiness)

IsPrefix(s, t) == Len(s) <= Len(t) /\ \A i \in 1..Len(s) : s[i] = t[i]

\* the order of the external calls of each compare-mode handler
FetchOrder == << [biz |-> "A", kind |-> "fetch"], [biz |-> "B", kind |-> "fetch"] >>

Step1Order == << [biz |-> "A", kind |-> "sentiment"], [biz |-> "B", kind |-> "sentiment"] >>

InsightsOrder ==
    << [biz |-> "A", kind |-> "themes"], [biz |-> "B", kind |-> "themes"],
       [biz |-> "A", kind |-> "summary"], [biz |-> "B", kind |-> "summary"],
       [biz |-> "A", kind |-> "recs"], [biz |-> "B", kind |-> "recs"] >>

\* C11: in compare mode every action processes business A fully before
\* business B: among the external calls of one action, no call for A is
\* issued after a call for B.
C11_AFullyBeforeB ==
    mode = CompareMode =>
        \A i, j \in 1..Len(run.calls) :
            (i < j /\ run.calls[i].biz = "B") => run.calls[j].biz # "A"

\* C11 as amended: the external calls of one action are issued one after
\* the other in a fixed order, cut short where a call fails: reviews of A
\* then of B in Fetch Both, sentiment of A then of B in Run Step 1 for Both,
\* and in Generate Combined Insights themes of A, themes of B, summary of A,
\* summary of B, recommendations of A, recommendations of B, so that A
\* precedes B for each kind of call.
C11_AThenBPerKind ==
    mode = CompareMode =>
        \/ IsPrefix(BusinessCalls, FetchOrder)
        \/ IsPrefix(BusinessCalls, Step1Order)
        \/ IsPrefix(BusinessCalls, InsightsOrder)

\* C11 witness: Generate Combined Insights has issued all six of its calls
\* and set the flag.
C11_Witness ==
    /\ mode = CompareMode
    /\ BusinessCalls = InsightsOrder
    /\ session_state["compared"] = PyTrue

\* the slots the comparison is rendered from
ComparedSlots ==
    { "df_A_raw", "df_B_raw", "A_processed", "B_processed", "A_themes", "B_themes",
      "A_summary", "B_summary", "A_recs", "B_recs" }

\* C12: after any sequence of compare-mode actions, each succeeding or
\* failing at any external call, whenever the compared flag is True every
\* one of the ten slots of the two businesses is set (not None), and the
\* themes the comparison calls .get on are mappings.
C12_ComparedImpliesAllSet ==
    (mode = CompareMode /\ session_state["compared"] = PyTrue) =>
        /\ \A k \in ComparedSlots : session_state[k] # PyNone
        /\ session_state["A_themes"].ty = "dict"
        /\ session_state["B_themes"].ty = "dict"

\* C12 witness: the flag is True and the try block of the action just run
\* caught an exception, after some of its calls were issued.
C12_Witness ==
    /\ mode = CompareMode
    /\ session_state["compared"] = PyTrue
    /\ run.caught # "none"
    /\ BusinessCalls # <<>>
=============================================================================
